---- MODULE Spec2Model ----
(***************************************************************************)
(* Model of the NETFLIX-CLONE-CLIENT front-end: the axios API client with  *)
(* its request and response interceptors (lib/api), the query and mutation *)
(* hooks (hooks/useMovies, hooks/useWatchlist) as they are configured on   *)
(* the QueryClient of main.tsx, and the three route components (home,      *)
(* movie detail, watchlist).  The identity provider and the backend are    *)
(* the environment.                                                        *)
(***************************************************************************)
EXTENDS Integers, Sequences, FiniteSets, Bags, TLC

VARIABLES
    auth,              \* identity provider session: "loading", "out" or a user
    getTokenFunction,  \* lib/api closure variable: "null" or "set"
    call,              \* one direct api call through the axios instance
    route,             \* the route component on display
    routeId,           \* the $id parameter of /movie/$id (a string)
    queries,           \* the QueryClient cache: query key -> query state
    muts,              \* bag of watchlist mutations in flight, each with the page whose
                       \* hook observes it ("gone" once that page was left)
    server,            \* the backend's watchlist of each user
    sent,              \* requests issued per query key since its page was displayed
    toast              \* the last toast shown

vars == <<auth, getTokenFunction, call, route, routeId, queries, muts, server, sent, toast>>

----------------------------------------------------------------------------
(* Identity provider                                                       *)

Users == {"A", "B"}

NoHeader == <<>>

Bearer(token) == <<"Bearer", token>>

\* What the installed getter, () => getToken(), can produce for a session:
\* the session's token, null, or a thrown error.
GetterOutcomes(a) == {"throw", "null"} \cup (IF a \in Users THEN {a} ELSE {})

\* JavaScript truthiness of a getter result that did not throw.
TokenTruthy(tok) == tok \notin {"null", "empty"}

----------------------------------------------------------------------------
(* lib/api: request interceptor                                            *)

RequestInterceptorNoCatch(getter, outcome) ==
    IF getter = "null" THEN [sent |-> TRUE, headers |-> NoHeader]
    ELSE IF outcome = "throw" THEN [sent |-> FALSE, headers |-> NoHeader]
    ELSE IF TokenTruthy(outcome) THEN [sent |-> TRUE, headers |-> Bearer(outcome)]
    ELSE [sent |-> TRUE, headers |-> NoHeader]

\* Variant testing "token !== null" in place of the truthiness of the token.
RequestInterceptorNullCheck(getter, outcome) ==
    IF getter = "null" THEN [sent |-> TRUE, headers |-> NoHeader]
    ELSE IF outcome = "throw" THEN [sent |-> TRUE, headers |-> NoHeader]
    ELSE IF outcome # "null" THEN [sent |-> TRUE, headers |-> Bearer(outcome)]
    ELSE [sent |-> TRUE, headers |-> NoHeader]

\* The config the interceptor returns: the request is always sent, with an
\* Authorization header only when the getter exists and gave a truthy token.
RequestInterceptor(getter, outcome) ==
    IF getter = "null" THEN [sent |-> TRUE, headers |-> NoHeader]
    ELSE IF outcome = "throw" THEN [sent |-> TRUE, headers |-> NoHeader]
    ELSE IF TokenTruthy(outcome) THEN [sent |-> TRUE, headers |-> Bearer(outcome)]
    ELSE [sent |-> TRUE, headers |-> NoHeader]

----------------------------------------------------------------------------
(* lib/api: response interceptor                                           *)

HttpErrorStatuses == {400, 401, 403, 404, 409, 500}

\* What the transport hands to the response interceptor.
Outcomes ==
    {[kind |-> "ok", status |-> 200]}
    \cup {[kind |-> "http", status |-> s] : s \in HttpErrorStatuses}
    \cup {[kind |-> "noResponse", status |-> 0], [kind |-> "setup", status |-> 0]}

ErrorLog(error) ==
    IF error.kind = "http" THEN
        CASE error.status = 401 -> "Unauthorized. Please log in again."
          [] error.status = 403 -> "Forbidden. You don't have permission."
          [] error.status = 404 -> "Resource not found."
          [] error.status = 409 -> "Too many requests. Please slow down."
          [] error.status = 500 -> "Server error. Please try again later."
          [] OTHER -> "Error: Something went wrong"
    ELSE IF error.kind = "noResponse" THEN "No response from server. Check your connection."
    ELSE "Request error:"

\* Variant resolving a 401 in place of rejecting it.
ResponseInterceptorSwallow401(outcome) ==
    IF outcome.kind = "ok" THEN [settled |-> "resolved", value |-> outcome, log |-> ""]
    ELSE IF outcome.kind = "http" /\ outcome.status = 401
         THEN [settled |-> "resolved", value |-> outcome, log |-> ErrorLog(outcome)]
    ELSE [settled |-> "rejected", value |-> outcome, log |-> ErrorLog(outcome)]

\* Success handler returns the response; error handler logs by branch and
\* rejects with the error it was given.
ResponseInterceptor(outcome) ==
    IF outcome.kind = "ok" THEN [settled |-> "resolved", value |-> outcome, log |-> ""]
    ELSE [settled |-> "rejected", value |-> outcome, log |-> ErrorLog(outcome)]

----------------------------------------------------------------------------
(* Numbers as the route component computes them                            *)

NaN == [isNaN |-> TRUE, val |-> 0]

Num(n) == [isNaN |-> FALSE, val |-> n]

\* JavaScript !!x for a number: false for 0, -0 and NaN.
Truthy(x) == ~x.isNaN /\ x.val # 0

DigitChars == {"0", "1", "2", "3", "4", "5", "6", "7", "8", "9"}

DigitVal(c) ==
    CASE c = "0" -> 0 [] c = "1" -> 1 [] c = "2" -> 2 [] c = "3" -> 3 [] c = "4" -> 4
      [] c = "5" -> 5 [] c = "6" -> 6 [] c = "7" -> 7 [] c = "8" -> 8 [] c = "9" -> 9

RECURSIVE DigitPrefix(_)
\* The longest prefix of s made of decimal digits.
DigitPrefix(s) ==
    IF s = <<>> \/ Head(s) \notin DigitChars THEN <<>>
    ELSE <<Head(s)>> \o DigitPrefix(Tail(s))

RECURSIVE DigitsValue(_, _)
DigitsValue(acc, s) ==
    IF s = <<>> THEN acc ELSE DigitsValue(acc * 10 + DigitVal(Head(s)), Tail(s))

\* parseInt(id, 10): an optional sign, then the longest run of digits; NaN when
\* there is none.  (The route ids drawn here hold no leading white space.)
ParseInt(s) ==
    LET neg == s # <<>> /\ Head(s) = "-"
        body == IF s # <<>> /\ Head(s) \in {"-", "+"} THEN Tail(s) ELSE s
        ds == DigitPrefix(body)
    IN  IF ds = <<>> THEN NaN
        ELSE Num((IF neg THEN -1 ELSE 1) * DigitsValue(0, ds))

\* A number inside a query key or a URL.
IdStr(x) == IF x.isNaN THEN "NaN" ELSE ToString(x.val)

----------------------------------------------------------------------------
(* hooks/useMovies and hooks/useWatchlist: what each hook hands to useQuery *)

Retry == 1

UseTrendingMovies == [key |-> <<"movies", "trending", "week">>, enabled |-> TRUE]

UsePopularMovies == [key |-> <<"movies", "popular", "1">>, enabled |-> TRUE]

UseTopRatedMovies == [key |-> <<"movies", "top-rated", "1">>, enabled |-> TRUE]

\* Variant without the enabled option.
UseMovieDetailsAlways(movieId) == [key |-> <<"movie", IdStr(movieId)>>, enabled |-> TRUE]

UseMovieDetails(movieId) == [key |-> <<"movie", IdStr(movieId)>>, enabled |-> Truthy(movieId)]

UseMovieCredits(movieId) ==
    [key |-> <<"movie", IdStr(movieId), "credits">>, enabled |-> Truthy(movieId)]

UseMovieVideos(movieId) ==
    [key |-> <<"movie", IdStr(movieId), "videos">>, enabled |-> Truthy(movieId)]

UseSimilarMovies(movieId) ==
    [key |-> <<"movie", IdStr(movieId), "similar", "1">>, enabled |-> Truthy(movieId)]

UseMovieRecommendations(movieId) ==
    [key |-> <<"movie", IdStr(movieId), "recommendations", "1">>, enabled |-> Truthy(movieId)]

\* query is a string, here a sequence of characters.
UseSearchMovies(query) ==
    [key |-> <<"movies", "search">> \o query \o <<"1">>, enabled |-> Len(query) > 0]

UseWatchlist == [key |-> <<"watchlist">>, enabled |-> TRUE]

\* contentType is "movie" or "tv", both truthy strings.
UseWatchlistStatus(tmdbId, contentType) ==
    [key |-> <<"watchlist", "status", IdStr(tmdbId), contentType>>,
     enabled |-> Truthy(tmdbId) /\ contentType # ""]

----------------------------------------------------------------------------
(* Route components: the hooks each one calls                              *)

HomePage == {UseTrendingMovies, UsePopularMovies, UseTopRatedMovies}

MovieDetailPage(id) ==
    LET movieId == ParseInt(id)
    IN  {UseMovieDetails(movieId), UseMovieCredits(movieId), UseSimilarMovies(movieId),
         UseWatchlistStatus(movieId, "movie")}

WatchlistPage == {UseWatchlist}

\* The observers of the page on display, among the cache entries tracked.
Observers(p, id) ==
    LET all == CASE p = "home" -> HomePage
                 [] p = "movie" -> MovieDetailPage(id)
                 [] p = "watchlist" -> WatchlistPage
                 [] OTHER -> {}
    IN  {o \in all : o.key \in DOMAIN queries}

ObservedKeys(p, id) == {o.key : o \in Observers(p, id)}

\* The query has an observer whose enabled option is not false.
Active(k, p, id) == \E o \in Observers(p, id) : o.key = k /\ o.enabled

----------------------------------------------------------------------------
(* The QueryClient cache (main.tsx) and the life of one query              *)

\* tmdb ids of the titles a watchlist can hold.
Items == {7}

NoData == [present |-> FALSE, owner |-> "", items |-> {}]

Data(owner, items) == [present |-> TRUE, owner |-> owner, items |-> items]

\* A query nobody has fetched yet.
NewQuery ==
    [status |-> "pending", phase |-> "none", data |-> NoData, attempts |-> 0,
     isInvalidated |-> FALSE, fresh |-> FALSE, retryCancelled |-> FALSE, hdr |-> NoHeader]

IsPrefix(p, k) == Len(p) <= Len(k) /\ SubSeq(k, 1, Len(p)) = p

IsFetching(q) == q.phase # "none"

\* isLoading of a query result: isFetching && isPending.
IsLoading(q) == IsFetching(q) /\ q.status = "pending"

\* Stale: no data, invalidated, or older than the hook's staleTime.
IsStale(q) == ~q.data.present \/ q.isInvalidated \/ ~q.fresh

\* refetchOnMount (default): an enabled observer fetches on mount when the
\* query has no data or is stale.
ShouldFetchOnMount(q, enabled) == enabled /\ IsStale(q)

\* The fetch reducer: a new request goes out carrying hdr.
StartFetch(q, hdr) ==
    [q EXCEPT !.phase = "inflight", !.attempts = 1, !.hdr = hdr,
              !.retryCancelled = FALSE,
              !.status = IF q.data.present THEN q.status ELSE "pending"]

\* Query.fetch: a running fetch is kept (its retries resumed) unless the
\* query has data and the caller asks to cancel it.
Fetch(q, hdr, cancelRefetch) ==
    IF IsFetching(q) /\ ~(q.data.present /\ cancelRefetch)
    THEN [q EXCEPT !.retryCancelled = FALSE]
    ELSE StartFetch(q, hdr)

\* Whether Fetch sends a request.
Issues(q, cancelRefetch) == ~IsFetching(q) \/ (q.data.present /\ cancelRefetch)

\* The last observer leaves: a running fetch goes on, its retries cancelled.
RemoveObserver(q) == IF IsFetching(q) THEN [q EXCEPT !.retryCancelled = TRUE] ELSE q

Succeed(q, data) ==
    [q EXCEPT !.status = "success", !.phase = "none", !.data = data, !.attempts = 0,
              !.isInvalidated = FALSE, !.fresh = TRUE, !.retryCancelled = FALSE,
              !.hdr = NoHeader]

GiveUp(q) ==
    [q EXCEPT !.status = "error", !.phase = "none", !.isInvalidated = TRUE,
              !.retryCancelled = FALSE, !.hdr = NoHeader]

\* Variant with retry: 0.
FailNoRetry(q) == GiveUp(q)

\* Variant with retry: 2.
FailRetryTwice(q) ==
    IF q.retryCancelled \/ ~(q.attempts - 1 < Retry + 1) THEN GiveUp(q)
    ELSE [q EXCEPT !.phase = "wait", !.hdr = NoHeader]

\* The retryer on a rejected attempt: retry while failureCount < retry,
\* unless the retries were cancelled; failureCount is attempts - 1 here.
Fail(q) ==
    IF q.retryCancelled \/ ~(q.attempts - 1 < Retry) THEN GiveUp(q)
    ELSE [q EXCEPT !.phase = "wait", !.hdr = NoHeader]

----------------------------------------------------------------------------
(* Backend                                                                 *)

HeaderUser(hdr) == hdr[2]


NeedsAuth(k) == IsPrefix(<<"watchlist">>, k)

\* What the transport can hand back for a GET of key k sent with hdr: the
\* watchlist endpoints answer only authenticated requests.
GetOutcomes(k, hdr) ==
    IF NeedsAuth(k) /\ hdr = NoHeader THEN {o \in Outcomes : o.kind # "ok"}
    ELSE Outcomes

\* data of a successful GET, as the queryFn unwraps it.
GetData(k, hdr) ==
    IF k = <<"watchlist">> THEN Data(HeaderUser(hdr), server[HeaderUser(hdr)])
    ELSE IF IsPrefix(<<"watchlist", "status">>, k)
    THEN Data(HeaderUser(hdr), {i \in server[HeaderUser(hdr)] : ToString(i) = k[3]})
    ELSE Data("", {})

----------------------------------------------------------------------------
(* Bounds                                                                  *)

\* Longest route id drawn for /movie/$id.
MaxIdLen == 2

\* Most watchlist mutations in flight at once.
MaxMutations == 1

IdChars == {"0", "7", "-", "x"}

RouteIds == UNION {[1..n -> IdChars] : n \in 0..MaxIdLen}

----------------------------------------------------------------------------
(* Identity provider events                                                *)

ClerkLoaded(sessions) ==
    /\ auth = "loading"
    /\ auth' \in sessions
    /\ UNCHANGED <<getTokenFunction, call, route, routeId, queries, muts, server, sent, toast>>

SignIn(u) ==
    /\ auth = "out"
    /\ auth' = u
    /\ UNCHANGED <<getTokenFunction, call, route, routeId, queries, muts, server, sent, toast>>

\* The session ends without this page being reloaded.
SignOut ==
    /\ auth \in Users
    /\ auth' = "out"
    /\ UNCHANGED <<getTokenFunction, call, route, routeId, queries, muts, server, sent, toast>>

\* InnerApp's effect: setTokenGetter(async () => await getToken()).
InnerAppEffect ==
    /\ getTokenFunction = "null"
    /\ getTokenFunction' = "set"
    /\ UNCHANGED <<auth, call, route, routeId, queries, muts, server, sent, toast>>

----------------------------------------------------------------------------
(* One call through the axios instance                                     *)

NoOutcome == [kind |-> "none", status |-> 0]

IdleCall ==
    [stage |-> "idle", installed |-> FALSE, got |-> "none",
     config |-> [sent |-> FALSE, headers |-> NoHeader], outcome |-> NoOutcome,
     result |-> [settled |-> "none", value |-> NoOutcome, log |-> ""]]

\* api.get / api.post / api.delete: the request interceptor runs, consulting
\* the getter when there is one, and the request goes out.  The getter's
\* type also allows an empty string.
ApiRequest ==
    /\ call.stage = "idle"
    /\ \E tok \in GetterOutcomes(auth) \cup {"empty"} :
        LET got == IF getTokenFunction = "null" THEN "none" ELSE tok
            cfg == RequestInterceptor(getTokenFunction, tok)
        IN  call' = [call EXCEPT !.stage = IF cfg.sent THEN "sent" ELSE "failed",
                                 !.installed = getTokenFunction # "null",
                                 !.got = got, !.config = cfg]
    /\ UNCHANGED <<auth, getTokenFunction, route, routeId, queries, muts, server, sent, toast>>

\* The transport settles and the response interceptor hands on the outcome.
ApiRespond ==
    /\ call.stage = "sent"
    /\ \E o \in Outcomes :
        call' = [call EXCEPT !.stage = "settled", !.outcome = o,
                             !.result = ResponseInterceptor(o)]
    /\ UNCHANGED <<auth, getTokenFunction, route, routeId, queries, muts, server, sent, toast>>

\* The caller has consumed the result.
ApiDone ==
    /\ call.stage \in {"settled", "failed"}
    /\ call' = IdleCall
    /\ UNCHANGED <<auth, getTokenFunction, route, routeId, queries, muts, server, sent, toast>>

----------------------------------------------------------------------------
(* Queries                                                                 *)

RECURSIVE SumCopies(_, _)
SumCopies(B, S) ==
    IF S = {} THEN 0
    ELSE LET m == CHOOSE x \in S : TRUE IN B[m] + SumCopies(B, S \ {m})

\* The mutation hooks of every page but p are unmounted; their mutations run on.
LeavePage(B, p) ==
    LET left(m) == IF m.page = p THEN m ELSE [m EXCEPT !.page = "gone"]
        S == BagToSet(B)
    IN  [t \in {left(m) : m \in S} |-> SumCopies(B, {m \in S : left(m) = t})]

\* The headers a request sent now can carry: the request interceptor run on
\* each thing the getter can produce for the session.
RequestHeaders ==
    {RequestInterceptor(getTokenFunction, tok).headers : tok \in GetterOutcomes(auth)}

\* How the response interceptor can settle a call with these outcomes.
Settlements(outcomes) == {ResponseInterceptor(o).settled : o \in outcomes}

Count(K) == [k \in DOMAIN sent |-> IF k \in K THEN sent[k] + 1 ELSE sent[k]]

\* The router displays page p: the old page's observers leave, the new
\* page's observers subscribe and fetch what is missing or stale.  Routes
\* render after InnerApp's effect has run.
Navigate(p, id) ==
    /\ getTokenFunction = "set"
    /\ <<p, id>> # <<route, routeId>>
    /\ \E hdr \in RequestHeaders :
        LET old == ObservedKeys(route, routeId)
            new == Observers(p, id)
            opt(k) == CHOOSE o \in new : o.key = k
            arrive == {o.key : o \in new} \ old
            leave == old \ {o.key : o \in new}
            fetches == {k \in arrive : ShouldFetchOnMount(queries[k], opt(k).enabled)}
        IN  /\ queries' = [k \in DOMAIN queries |->
                             IF k \in fetches THEN Fetch(queries[k], hdr, FALSE)
                             ELSE IF k \in leave THEN RemoveObserver(queries[k])
                             ELSE queries[k]]
            /\ sent' = [k \in DOMAIN sent |->
                          IF k \in arrive
                          THEN (IF k \in fetches /\ Issues(queries[k], FALSE) THEN 1 ELSE 0)
                          ELSE sent[k]]
    /\ route' = p
    /\ routeId' = id
    /\ muts' = LeavePage(muts, p)
    /\ UNCHANGED <<auth, getTokenFunction, call, server, toast>>

\* The GET of query k settles.
Respond(k) ==
    /\ queries[k].phase = "inflight"
    /\ \E settled \in Settlements(GetOutcomes(k, queries[k].hdr)) :
        queries' = [queries EXCEPT ![k] =
                      IF settled = "resolved"
                      THEN Succeed(@, GetData(k, @.hdr))
                      ELSE Fail(@)]
    /\ UNCHANGED <<auth, getTokenFunction, call, route, routeId, muts, server, sent, toast>>

\* The retry delay is over: the queryFn runs again, unless the retries were
\* cancelled meanwhile.
RetryFire(k) ==
    /\ queries[k].phase = "wait"
    /\ \E hdr \in RequestHeaders :
        IF queries[k].retryCancelled
        THEN /\ queries' = [queries EXCEPT ![k] = GiveUp(@)]
             /\ sent' = sent
        ELSE /\ queries' = [queries EXCEPT ![k] =
                              [@ EXCEPT !.phase = "inflight", !.attempts = @ + 1,
                                        !.hdr = hdr]]
             /\ sent' = Count({k})
    /\ UNCHANGED <<auth, getTokenFunction, call, route, routeId, muts, server, toast>>

\* The hook's staleTime has passed since the data arrived.
BecomeStale(k) ==
    /\ queries[k].data.present
    /\ queries[k].fresh
    /\ queries' = [queries EXCEPT ![k].fresh = FALSE]
    /\ UNCHANGED <<auth, getTokenFunction, call, route, routeId, muts, server, sent, toast>>

----------------------------------------------------------------------------
(* Watchlist mutations                                                     *)

\* isPending of the mutation hooks of the page on display.
PagePending == \E m \in BagToSet(muts) : m.page = route

\* Variant matching the key exactly (exact: true).
InvalidateQueriesExact(prefix, hdr) ==
    [k \in DOMAIN queries |->
        IF k # prefix THEN queries[k]
        ELSE LET q == [queries[k] EXCEPT !.isInvalidated = TRUE]
             IN  IF Active(k, route, routeId) THEN Fetch(q, hdr, TRUE) ELSE q]

\* Variant that also empties the cached data on success.
InvalidateQueriesOptimistic(prefix, hdr) ==
    [k \in DOMAIN queries |->
        IF ~IsPrefix(prefix, k) THEN queries[k]
        ELSE LET q == [queries[k] EXCEPT !.isInvalidated = TRUE,
                                         !.data = IF @.present THEN Data(@.owner, {}) ELSE @]
             IN  IF Active(k, route, routeId) THEN Fetch(q, hdr, TRUE) ELSE q]

\* queryClient.invalidateQueries({ queryKey: prefix }): every query whose key
\* starts with prefix is marked invalidated, and those with an enabled
\* observer are refetched, cancelling a refetch already running.
InvalidateQueries(prefix, hdr) ==
    [k \in DOMAIN queries |->
        IF ~IsPrefix(prefix, k) THEN queries[k]
        ELSE LET q == [queries[k] EXCEPT !.isInvalidated = TRUE]
             IN  IF Active(k, route, routeId) THEN Fetch(q, hdr, TRUE) ELSE q]

\* handleWatchlistToggle on the movie page, whose button shows once the
\* movie has loaded and is disabled while either mutation is pending.
ToggleWatchlist ==
    /\ route = "movie"
    /\ auth \in Users
    /\ Truthy(ParseInt(routeId))
    /\ ParseInt(routeId).val \in Items
    /\ ~PagePending
    /\ BagCardinality(muts) < MaxMutations
    /\ \E hdr \in RequestHeaders :
        LET movieId == ParseInt(routeId)
            st == queries[UseWatchlistStatus(movieId, "movie").key].data
        IN  muts' = muts (+) SetToBag({
                      IF st.present /\ st.items # {}
                      THEN [kind |-> "remove", item |-> movieId.val, owner |-> st.owner,
                            hdr |-> hdr, page |-> "movie"]
                      ELSE [kind |-> "add", item |-> movieId.val, owner |-> auth,
                            hdr |-> hdr, page |-> "movie"]})
    /\ UNCHANGED <<auth, getTokenFunction, call, route, routeId, queries, server, sent, toast>>

\* The remove button of a watchlist item, confirmed.
RemoveFromList(item) ==
    /\ route = "watchlist"
    /\ auth \in Users
    /\ ~IsLoading(queries[UseWatchlist.key])
    /\ item \in queries[UseWatchlist.key].data.items
    /\ ~PagePending
    /\ BagCardinality(muts) < MaxMutations
    /\ \E hdr \in RequestHeaders :
        muts' = muts (+) SetToBag({
                  [kind |-> "remove", item |-> item,
                   owner |-> queries[UseWatchlist.key].data.owner,
                   hdr |-> hdr, page |-> "watchlist"]})
    /\ UNCHANGED <<auth, getTokenFunction, call, route, routeId, queries, server, sent, toast>>

\* What the backend can answer to a mutation: it serves only authenticated
\* requests, and removes only an entry of the caller's own list.
MutationOutcomes(m) ==
    IF m.hdr = NoHeader THEN {o \in Outcomes : o.kind # "ok"}
    ELSE IF m.kind = "remove"
            /\ (m.owner # HeaderUser(m.hdr) \/ m.item \notin server[HeaderUser(m.hdr)])
    THEN {o \in Outcomes : o.kind # "ok"}
    ELSE Outcomes

\* The POST or DELETE of mutation m settles: onSuccess invalidates the
\* watchlist queries and toasts, onError only toasts.
MutationRespond(m) ==
    /\ BagIn(m, muts)
    /\ \E settled \in Settlements(MutationOutcomes(m)), hdr \in RequestHeaders :
            IF settled = "resolved"
            THEN /\ server' = [server EXCEPT ![HeaderUser(m.hdr)] =
                                 IF m.kind = "add" THEN @ \cup {m.item} ELSE @ \ {m.item}]
                 /\ queries' = InvalidateQueries(<<"watchlist">>, hdr)
                 /\ toast' = IF m.kind = "add" THEN "Added to watchlist!"
                             ELSE "Removed from watchlist"
            ELSE /\ server' = server
                 /\ queries' = queries
                 /\ toast' = IF m.kind = "add" THEN "Failed to add to watchlist"
                             ELSE "Failed to remove from watchlist"
    /\ muts' = muts (-) SetToBag({m})
    /\ UNCHANGED <<auth, getTokenFunction, call, route, routeId, sent>>

----------------------------------------------------------------------------
(* Specifications                                                          *)

\* The state once the modules are loaded and nothing has rendered yet; keys
\* are the cache entries followed, counted the ones whose requests are counted.
Boot(keys, counted) ==
    /\ auth = "loading"
    /\ getTokenFunction = "null"
    /\ call = IdleCall
    /\ route = "none"
    /\ muts = EmptyBag
    /\ queries = [k \in keys |-> NewQuery]
    /\ sent = [k \in counted |-> 0]
    /\ toast = ""

KeysOf(page) == {o.key : o \in page}

\* The API client on its own.
InitApi ==
    /\ Boot({}, {})
    /\ routeId = <<>>
    /\ server = [u \in Users |-> {}]

NextApi ==
    \/ ClerkLoaded({"out"} \cup Users)
    \/ \E u \in Users : SignIn(u)
    \/ SignOut
    \/ InnerAppEffect
    \/ ApiRequest
    \/ ApiRespond
    \/ ApiDone

SpecApi == InitApi /\ [][NextApi]_vars

\* The home page and its three catalog rows.
InitHome ==
    /\ Boot(KeysOf(HomePage), KeysOf(HomePage))
    /\ routeId = <<>>
    /\ server = [u \in Users |-> {}]

NextHome ==
    \/ InnerAppEffect
    \/ \E p \in {"home", "other"} : Navigate(p, <<>>)
    \/ \E k \in DOMAIN queries : Respond(k)
    \/ \E k \in DOMAIN queries : RetryFire(k)
    \/ \E k \in DOMAIN queries : BecomeStale(k)

SpecHome == InitHome /\ [][NextHome]_vars

\* The movie detail page opened on /movie/<routeId>.
InitMovie ==
    /\ routeId \in RouteIds
    /\ Boot(KeysOf(MovieDetailPage(routeId)), {})
    /\ server = [u \in Users |-> {}]

NextMovie ==
    \/ InnerAppEffect
    \/ Navigate("movie", routeId)
    \/ \E k \in DOMAIN queries : Respond(k)
    \/ \E k \in DOMAIN queries : RetryFire(k)
    \/ \E k \in DOMAIN queries : BecomeStale(k)

SpecMovie == InitMovie /\ [][NextMovie]_vars

\* One signed-in user adding and removing, on the movie page of a valid id,
\* the movie page of an id that does not parse, and the watchlist page.
MutateIds == {<<"7">>, <<"x">>}

InitMutate ==
    /\ Boot(KeysOf(WatchlistPage)
              \cup {UseWatchlistStatus(ParseInt(id), "movie").key : id \in MutateIds}, {})
    /\ routeId = <<>>
    /\ server \in {[u \in Users |-> IF u = "A" THEN s ELSE {}] : s \in SUBSET Items}

NextMutate ==
    \/ ClerkLoaded({"A"})
    \/ InnerAppEffect
    \/ Navigate("watchlist", <<>>)
    \/ \E id \in MutateIds : Navigate("movie", id)
    \/ \E k \in DOMAIN queries : Respond(k)
    \/ \E k \in DOMAIN queries : RetryFire(k)
    \/ ToggleWatchlist
    \/ \E item \in Items : RemoveFromList(item)
    \/ \E m \in BagToSet(muts) : MutationRespond(m)

SpecMutate == InitMutate /\ [][NextMutate]_vars

\* Sessions coming and going while the watchlist page is visited.
InitSession ==
    /\ Boot(KeysOf(WatchlistPage), {})
    /\ routeId = <<>>
    /\ server \in [Users -> SUBSET Items]

NextSession ==
    \/ ClerkLoaded({"out"} \cup Users)
    \/ \E u \in Users : SignIn(u)
    \/ SignOut
    \/ InnerAppEffect
    \/ \E p \in {"watchlist", "other"} : Navigate(p, <<>>)
    \/ \E k \in DOMAIN queries : Respond(k)
    \/ \E k \in DOMAIN queries : RetryFire(k)
    \/ \E k \in DOMAIN queries : BecomeStale(k)
    \/ \E item \in Items : RemoveFromList(item)
    \/ \E m \in BagToSet(muts) : MutationRespond(m)

SpecSession == InitSession /\ [][NextSession]_vars

----------------------------------------------------------------------------
(* What the route components render                                        *)

MovieDetailView(q) ==
    IF IsLoading(q) THEN "spinner"
    ELSE IF ~q.data.present THEN "notFound"
    ELSE "detail"

\* Variant without the SignedIn gate around the list.
WatchlistMainUngated(a, q) ==
    (IF a = "out" THEN {"signInPrompt"} ELSE {})
    \cup {"heading"}
    \cup (IF IsLoading(q) THEN {"skeleton"}
          ELSE IF ~q.data.present \/ q.data.items = {} THEN {"empty"}
          ELSE {"items", "removeButton"})

\* <main> of the watchlist page: <SignedOut> shows the prompt, <SignedIn> the
\* heading and the skeleton, the empty notice or the items; neither renders
\* while the identity provider is loading.
WatchlistMain(a, q) ==
    IF a = "out" THEN {"signInPrompt"}
    ELSE IF a \in Users
    THEN {"heading"}
         \cup (IF IsLoading(q) THEN {"skeleton"}
               ELSE IF ~q.data.present \/ q.data.items = {} THEN {"empty"}
               ELSE {"items", "removeButton"})
    ELSE {}

----------------------------------------------------------------------------
(* Claims about the API client (SpecApi)                                   *)

\* C1: a request that went out carries Authorization: Bearer <token> exactly
\* when the getter was installed when the interceptor ran and gave a
\* non-empty token for this request; the header is built from that token.
C1_AuthHeaderIffToken ==
    call.stage \in {"sent", "settled"} =>
        /\ (call.config.headers # NoHeader) <=>
               (call.installed /\ call.got \notin {"none", "throw", "null", "empty"})
        /\ call.config.headers # NoHeader => call.config.headers = Bearer(call.got)

\* A request made after sign-out, the getter answering null, is on the wire
\* without the header.
C1_Witness ==
    /\ call.stage = "sent"
    /\ call.installed
    /\ call.got = "null"
    /\ auth = "out"
    /\ call.config.headers = NoHeader

\* C8: when the installed getter throws, the request is still sent, and
\* without an Authorization header.
C8_GetterThrowStillSent ==
    (call.stage # "idle" /\ call.installed /\ call.got = "throw") =>
        /\ call.stage \in {"sent", "settled"}
        /\ call.config.sent
        /\ call.config.headers = NoHeader

C8_Witness ==
    /\ call.stage = "settled"
    /\ call.installed
    /\ call.got = "throw"
    /\ auth \in Users

\* C7: the response interceptor hands the caller the outcome it was given,
\* resolved when it is a response and rejected when it is any failure.
C7_OutcomePassedThrough ==
    call.stage = "settled" =>
        /\ call.result.value = call.outcome
        /\ (call.result.settled = "resolved") <=> (call.outcome.kind = "ok")
        /\ (call.result.settled = "rejected") <=> (call.outcome.kind # "ok")

C7_Witness ==
    /\ call.stage = "settled"
    /\ call.outcome = [kind |-> "http", status |-> 401]
    /\ call.result.settled = "rejected"
    /\ call.result.log = "Unauthorized. Please log in again."

----------------------------------------------------------------------------
(* Claims about the catalog rows and the retry policy (SpecHome)           *)

----------------------------------------------------------------------------
(* Claim about the enabled options (SpecMovie)                             *)

\* C9: every hook keyed by a movie id is disabled for an id of 0 or NaN, and
\* the search hook for an empty query; a disabled query of the movie page
\* never issues a request, and the page opened on a route id that parses to
\* 0 or NaN sends nothing and shows "Movie Not Found", not the spinner.
C9_DisabledQueriesStayIdle ==
    /\ \A id \in RouteIds :
        LET movieId == ParseInt(id)
        IN  ~Truthy(movieId) =>
                /\ ~UseMovieDetails(movieId).enabled
                /\ ~UseMovieCredits(movieId).enabled
                /\ ~UseMovieVideos(movieId).enabled
                /\ ~UseSimilarMovies(movieId).enabled
                /\ ~UseMovieRecommendations(movieId).enabled
                /\ ~UseWatchlistStatus(movieId, "movie").enabled
                /\ ~UseWatchlistStatus(movieId, "tv").enabled
    /\ ~UseSearchMovies(<<>>).enabled
    /\ \A o \in MovieDetailPage(routeId) : ~o.enabled => queries[o.key] = NewQuery
    /\ (route = "movie" /\ ~Truthy(ParseInt(routeId))) =>
           /\ \A k \in DOMAIN queries : queries[k].attempts = 0 /\ ~IsFetching(queries[k])
           /\ MovieDetailView(queries[UseMovieDetails(ParseInt(routeId)).key]) = "notFound"

\* The page is displayed on /movie/-0, whose id parses to a zero.
C9_Witness ==
    /\ route = "movie"
    /\ routeId = <<"-", "0">>
    /\ ParseInt(routeId) = Num(0)
    /\ DOMAIN queries = KeysOf(MovieDetailPage(routeId))

----------------------------------------------------------------------------
(* Claims about the signed-out and signed-in watchlist page (SpecSession)  *)

\* C3: while the user is signed out the watchlist page shows the sign-in
\* prompt only: no heading, no item, no remove button, whatever the cache holds.
C3_SignedOutSeesOnlyPrompt ==
    (route = "watchlist" /\ auth = "out") =>
        WatchlistMain(auth, queries[UseWatchlist.key]) = {"signInPrompt"}

\* Signed out on the watchlist page with an earlier session's items cached.
C3_Witness ==
    /\ route = "watchlist"
    /\ auth = "out"
    /\ queries[UseWatchlist.key].data.present
    /\ queries[UseWatchlist.key].data.items # {}
    /\ ~IsFetching(queries[UseWatchlist.key])

\* C10: the items the watchlist page shows to a signed-in user were fetched
\* with a request authenticated as that user.
C10_ShownWatchlistIsOwn ==
    (route = "watchlist" /\ auth \in Users
       /\ "items" \in WatchlistMain(auth, queries[UseWatchlist.key])) =>
        queries[UseWatchlist.key].data.owner = auth

----------------------------------------------------------------------------
(* Claims about the watchlist mutations (SpecMutate)                       *)

WatchlistKeys == {k \in DOMAIN queries : IsPrefix(<<"watchlist">>, k)}

\* A step in which a mutation succeeds: it leaves the bag and its success
\* toast is shown.
MutationSucceeds ==
    /\ BagCardinality(muts') < BagCardinality(muts)
    /\ toast' \in {"Added to watchlist!", "Removed from watchlist"}

\* C2, as stated: when a mutation succeeds every watchlist query is
\* invalidated and every mounted one is being refetched.
C2_EveryMountedRefetched ==
    [][MutationSucceeds =>
        \A k \in WatchlistKeys :
            /\ queries'[k].isInvalidated
            /\ k \in ObservedKeys(route, routeId) => IsFetching(queries'[k])
      ]_vars

\* C2, amended: when a mutation succeeds every watchlist query is
\* invalidated, and every one with an enabled observer is fetching: with a
\* new request when it holds data, with the request of its first load when
\* it holds none yet; the others are left as they are.
C2_EnabledMountedRefetched ==
    [][MutationSucceeds =>
        \A k \in WatchlistKeys :
            /\ queries'[k].isInvalidated
            /\ Active(k, route, routeId) =>
                   /\ IsFetching(queries'[k])
                   /\ queries[k].data.present =>
                          (queries'[k].phase = "inflight" /\ queries'[k].attempts = 1)
            /\ ~Active(k, route, routeId) =>
                   queries'[k] = [queries[k] EXCEPT !.isInvalidated = TRUE]
      ]_vars

\* After an add on the movie page the status query in view is invalidated and
\* refetching over its cached answer, and the list query, not mounted, is
\* invalidated and idle.
C2_Witness ==
    /\ route = "movie"
    /\ routeId = <<"7">>
    /\ toast = "Added to watchlist!"
    /\ BagCardinality(muts) = 0
    /\ LET st == queries[UseWatchlistStatus(Num(7), "movie").key]
       IN  st.isInvalidated /\ st.phase = "inflight" /\ st.data.present /\ st.attempts = 1
    /\ queries[UseWatchlist.key].isInvalidated
    /\ ~IsFetching(queries[UseWatchlist.key])

\* C4: no step changes the data of a cached watchlist query except the
\* arrival of its GET response, which replaces the data by what the server
\* answered; a step that starts or settles a mutation changes none.
C4_CacheOnlyFromServer ==
    [][\A k \in WatchlistKeys :
        /\ queries'[k].data # queries[k].data =>
               /\ queries[k].phase = "inflight"
               /\ queries[k].hdr # NoHeader
               /\ queries'[k].data = GetData(k, queries[k].hdr)
               /\ muts' = muts
        /\ muts' # muts => queries'[k].data = queries[k].data
      ]_vars

\* An add has succeeded on the server while the cached status, not yet
\* refetched, still says the title is not in the watchlist.
C4_Witness ==
    /\ toast = "Added to watchlist!"
    /\ 7 \in server["A"]
    /\ LET st == queries[UseWatchlistStatus(Num(7), "movie").key]
       IN  st.data.present /\ st.data.items = {} /\ st.isInvalidated
    /\ queries[UseWatchlist.key].data.present
    /\ queries[UseWatchlist.key].data.items = {}

====
